---- MODULE Spec2Model ----
(***************************************************************************)
(* Turn-taking handlers of fastrtc: GeminiHandler (demo/talk_to_gemini)    *)
(* and ReplyOnOver (backend/fastrtc/reply_on_over.py).                     *)
(*                                                                         *)
(* Handler instances hold REFERENCES to their mutable objects (asyncio     *)
(* queues, events, AppState, AlgoOptions); the objects live in heaps       *)
(* indexed by object id, so that two instances sharing an object is a      *)
(* state the model can express.                                            *)
(***************************************************************************)
EXTENDS Integers, Sequences, FiniteSets, TLC

\* ------------------------------------------------------------------ bounds
MaxCopies == 2   \* handler instances produced by copy() from the template
MaxIn     == 1   \* input frames waiting in input_queue at once
MaxFrames == 2   \* output frames the upstream session yields in a run
MaxEmit   == 2   \* emit() calls in flight at once
MaxGen    == 2   \* generator() tasks spawned in a run

Inst   == 0..MaxCopies            \* 0 is the template (app.py line 126)
Copies == 1..MaxCopies
QIds   == 1..(2 * (MaxCopies + 1))    \* asyncio.Queue objects
EIds   == 1..(2 * (MaxCopies + 1))    \* asyncio.Event / threading.Event objects
Slots  == 1..MaxEmit
Tasks  == 1..MaxGen

VARIABLES
    kind,       \* handler class the application serves its connections with
    alive,      \* handler instances constructed so far
    driven,     \* the instance serving the connection under observation
    actor,      \* instance whose operation or coroutine took the last step
    gh,         \* GeminiHandler instances: references to their objects
    queue,      \* heap of asyncio.Queue objects: contents, oldest first
    event,      \* heap of Event objects: TRUE when set
    emit_pc,    \* position of each emit() coroutine of each instance
    task,       \* generator() tasks of each instance, with their stream()
    produced,   \* history: frames put on the output queue, in order
    emitted,    \* history: frames returned by emit(), in order
    args_was_set,   \* history: set_args() has been called on the instance
    nshut,          \* history: shutdown() calls in immediate succession (0..2)
    closed,         \* history: shutdown() has been called on the instance
    ro,         \* ReplyOnOver instances: references, and the generator field
    appstate,   \* heap of AppState objects
    algo,       \* heap of AlgoOptions objects: the field of interest, and (as
                \* history) how many times a field was assigned since AlgoOptions()
    rout,       \* output of each ReplyOnOver instance: the queue to the transport
    rlast,      \* history: last ReplyOnOver operation, whether a turn ended, and
                \* the frames the last operation discarded from the output queue
    text,       \* transcript handed to over_detected
    verdict,    \* what over_detected answered for text ("none" before the call)
    cred        \* a relay-credential request: its input, and what each of the
                \* credential functions answered for it

gvars == <<gh, queue, emit_pc, task, produced, emitted, args_was_set, nshut,
          closed>>

rvars == <<ro, appstate, algo, rout, rlast>>

ovars == <<text, verdict, cred>>

vars == <<kind, alive, driven, actor, event, gvars, rvars, ovars>>

\* ----------------------------------------------------------------- helpers
Min(S) == CHOOSE n \in S : \A m \in S : n <= m

\* Allocation of a new object: an id no live instance refers to.
Fresh(pool, used) == Min(pool \ used)

IsPrefix(s, t) == Len(s) <= Len(t) /\ \A k \in 1..Len(s) : s[k] = t[k]

NoGemini == [input_queue |-> 0, output_queue |-> 0, quit |-> 0, args_set |-> 0]

\* Python's None, and an array that is present.
None == [some |-> FALSE, val |-> <<>>]
Some(a) == [some |-> TRUE, val |-> a]

NoReply == [state |-> 0, event |-> 0, args_set |-> 0, algo_options |-> 0,
            can_interrupt |-> FALSE, generator |-> None]

UsedQ == UNION {{gh[i].input_queue, gh[i].output_queue} : i \in alive}
UsedE == UNION {{gh[i].quit, gh[i].args_set, ro[i].event, ro[i].args_set} : i \in alive}

\* Input frames (numpy arrays) the transport may deliver.
Arrays == {"pcm"}

\* base64.b64encode(data.tobytes()).decode("UTF-8")
encode_audio(data) == <<"b64", data>>

NumSpawned(i) == Cardinality({g \in Tasks : task[i][g].pc # "none"})
NumWaitingArgs(i) == Cardinality({e \in Slots : emit_pc[i][e] \in {"wait_args", "woken"}})


\* ------------------------------------------------- GeminiHandler (app.py)

\* GeminiHandler.__init__: the base constructor creates the readiness event
\* args_set; lines 53-55 create the two queues and the quit event.
Gemini_init(n) ==
    LET q1 == Fresh(QIds, UsedQ)
        q2 == Fresh(QIds, UsedQ \cup {q1})
        e1 == Fresh(EIds, UsedE)
        e2 == Fresh(EIds, UsedE \cup {e1})
    IN  /\ gh' = [gh EXCEPT ![n] = [input_queue |-> q1, output_queue |-> q2,
                                    quit |-> e2, args_set |-> e1]]
        /\ queue' = [queue EXCEPT ![q1] = <<>>, ![q2] = <<>>]
        /\ event' = [event EXCEPT ![e1] = FALSE, ![e2] = FALSE]
        /\ alive' = alive \cup {n}

\* A copy() that hands its own objects to the new instance (a shallow copy).
Gemini_copy_shallow(src) ==
    /\ src \in alive
    /\ Copies \ alive # {}
    /\ gh' = [gh EXCEPT ![Min(Copies \ alive)] = gh[src]]
    /\ alive' = alive \cup {Min(Copies \ alive)}
    /\ actor' = src
    /\ UNCHANGED <<kind, rvars, ovars, closed>>
    /\ UNCHANGED <<driven, queue, event, emit_pc, task, produced, emitted,
                   args_was_set, nshut>>

\* GeminiHandler.copy: a new GeminiHandler built by the constructor.
Gemini_copy(src) ==
    /\ src \in alive
    /\ Copies \ alive # {}
    /\ Gemini_init(Min(Copies \ alive))
    /\ actor' = src
    /\ UNCHANGED <<kind, rvars, ovars, closed>>
    /\ UNCHANGED <<driven, emit_pc, task, produced, emitted, args_was_set, nshut>>

\* A receive() that waits for the readiness signal before it enqueues.
Gemini_receive_wait_args(i) ==
    /\ i \in alive
    /\ event[gh[i].args_set]
    /\ Len(queue[gh[i].input_queue]) < MaxIn
    /\ \E array \in Arrays :
         queue' = [queue EXCEPT ![gh[i].input_queue] = Append(@, encode_audio(array))]
    /\ actor' = i
    /\ nshut' = 0
    /\ UNCHANGED <<kind, rvars, ovars, closed>>
    /\ UNCHANGED <<alive, driven, gh, event, emit_pc, task, produced, emitted,
                   args_was_set>>

\* GeminiHandler.receive, lines 98-101: unpack and encode the frame,
\* input_queue.put_nowait.  The queue is created without maxsize (line 53),
\* so put_nowait cannot fail; MaxIn bounds the frames the model lets wait.
Gemini_receive(i) ==
    /\ i \in alive
    /\ Len(queue[gh[i].input_queue]) < MaxIn
    /\ \E array \in Arrays :
         queue' = [queue EXCEPT ![gh[i].input_queue] = Append(@, encode_audio(array))]
    /\ actor' = i
    /\ nshut' = 0
    /\ UNCHANGED <<kind, rvars, ovars, closed>>
    /\ UNCHANGED <<alive, driven, gh, event, emit_pc, task, produced, emitted,
                   args_was_set>>

\* set_args of the handler base class: store the arguments, set args_set.
\* asyncio.Event.set() completes the future of every waiter; a waiter runs
\* again at a later step of the event loop.
Handler_set_args(i) ==
    /\ i \in alive
    /\ event' = [event EXCEPT ![gh[i].args_set] = TRUE]
    /\ emit_pc' = [emit_pc EXCEPT ![i] =
                     [e \in Slots |-> IF @[e] = "wait_args" THEN "woken" ELSE @[e]]]
    /\ args_was_set' = [args_was_set EXCEPT ![i] = TRUE]
    /\ actor' = i
    /\ nshut' = 0
    /\ UNCHANGED <<kind, rvars, ovars, closed>>
    /\ UNCHANGED <<alive, driven, gh, queue, task, produced, emitted>>

\* emit, line 114: array = await self.output_queue.get(); return.
\* With a frame queued get() returns at once; otherwise emit() suspends.
\* q is the queue heap and t the task table as the caller left them.
Gemini_emit_get(i, e, q, t) ==
    LET out == gh[i].output_queue
    IN  /\ task' = t
        /\ IF q[out] # <<>>
           THEN /\ queue' = [q EXCEPT ![out] = Tail(@)]
                /\ emitted' = [emitted EXCEPT ![i] = Append(@, Head(q[out]))]
                /\ emit_pc' = [emit_pc EXCEPT ![i][e] = "idle"]
           ELSE /\ queue' = q
                /\ emitted' = emitted
                /\ emit_pc' = [emit_pc EXCEPT ![i][e] = "wait_out"]

\* asyncio.create_task(self.generator()), line 112: the task runs
\* connect(), whose session pulls from stream().
Gemini_spawn(i) ==
    [task EXCEPT ![i][Min({g \in Tasks : task[i][g].pc = "none"})] =
                     [pc |-> "running", stream |-> "check"]]

\* An emit() that does not wait for the readiness signal.
Gemini_emit_call_nowait(i, e) ==
    /\ i \in alive
    /\ emit_pc[i][e] = "idle"
    /\ e = Min({x \in Slots : emit_pc[i][x] = "idle"})
    /\ IF ~event[gh[i].args_set]
       THEN /\ NumSpawned(i) + NumWaitingArgs(i) < MaxGen
            /\ Gemini_emit_get(i, e, queue, Gemini_spawn(i))
       ELSE Gemini_emit_get(i, e, queue, task)
    /\ actor' = i
    /\ nshut' = 0
    /\ UNCHANGED <<kind, rvars, ovars, closed>>
    /\ UNCHANGED <<alive, driven, gh, event, produced, args_was_set>>

\* GeminiHandler.emit, called by the transport: lines 110-111 suspend on
\* wait_for_args() when args_set is not set, else go on to line 114.
\* A call runs in the lowest slot that holds no call.
Gemini_emit_call(i, e) ==
    /\ i \in alive
    /\ emit_pc[i][e] = "idle"
    /\ e = Min({x \in Slots : emit_pc[i][x] = "idle"})
    /\ IF ~event[gh[i].args_set]
       THEN /\ NumSpawned(i) + NumWaitingArgs(i) < MaxGen
            /\ emit_pc' = [emit_pc EXCEPT ![i][e] = "wait_args"]
            /\ UNCHANGED <<queue, task, emitted>>
       ELSE Gemini_emit_get(i, e, queue, task)
    /\ actor' = i
    /\ nshut' = 0
    /\ UNCHANGED <<kind, rvars, ovars, closed>>
    /\ UNCHANGED <<alive, driven, gh, event, produced, args_was_set>>

\* emit resumes from wait_for_args(): line 112 spawns generator(), then 114.
Gemini_emit_resume(i, e) ==
    /\ i \in alive
    /\ emit_pc[i][e] = "woken"
    /\ Gemini_emit_get(i, e, queue, Gemini_spawn(i))
    /\ actor' = i
    /\ nshut' = 0
    /\ UNCHANGED <<kind, rvars, ovars, closed>>
    /\ UNCHANGED <<alive, driven, gh, event, produced, args_was_set>>

\* emit suspended on output_queue.get() resumes when a frame is queued.
Gemini_emit_wake(i, e) ==
    /\ i \in alive
    /\ emit_pc[i][e] = "wait_out"
    /\ queue[gh[i].output_queue] # <<>>
    /\ Gemini_emit_get(i, e, queue, task)
    /\ actor' = i
    /\ nshut' = 0
    /\ UNCHANGED <<kind, rvars, ovars, closed>>
    /\ UNCHANGED <<alive, driven, gh, event, produced, args_was_set>>

\* generator, lines 104-107: each response of the upstream session is put
\* on the output queue as it arrives.
Gemini_generator_put_front(i, g) ==
    /\ i \in alive
    /\ task[i][g].pc = "running"
    /\ Len(produced[i]) < MaxFrames
    /\ queue' = [queue EXCEPT ![gh[i].output_queue] = <<Len(produced[i]) + 1>> \o @]
    /\ produced' = [produced EXCEPT ![i] = Append(@, Len(@) + 1)]
    /\ actor' = i
    /\ nshut' = 0
    /\ UNCHANGED <<kind, rvars, ovars, closed>>
    /\ UNCHANGED <<alive, driven, gh, event, emit_pc, task, emitted,
                   args_was_set>>

Gemini_generator_put(i, g) ==
    /\ i \in alive
    /\ task[i][g].pc = "running"
    /\ Len(produced[i]) < MaxFrames
    /\ queue' = [queue EXCEPT ![gh[i].output_queue] = Append(@, Len(produced[i]) + 1)]
    /\ produced' = [produced EXCEPT ![i] = Append(@, Len(@) + 1)]
    /\ actor' = i
    /\ nshut' = 0
    /\ UNCHANGED <<kind, rvars, ovars, closed>>
    /\ UNCHANGED <<alive, driven, gh, event, emit_pc, task, emitted,
                   args_was_set>>

\* generator: the upstream session ends (the async for of line 104 is
\* exhausted or raises); the task and the stream() it consumed are over.
Gemini_generator_end(i, g) ==
    /\ i \in alive
    /\ task[i][g].pc = "running"
    /\ task' = [task EXCEPT ![i][g] = [pc |-> "done", stream |-> "done"]]
    /\ actor' = i
    /\ nshut' = 0
    /\ UNCHANGED <<kind, rvars, ovars, closed>>
    /\ UNCHANGED <<alive, driven, gh, queue, event, emit_pc, produced, emitted,
                   args_was_set>>

\* stream, lines 65-68, at the loop head: leave when quit is set, else
\* await input_queue.get(), which returns at once when a frame is queued
\* (the frame is yielded and the loop head is reached again).
Gemini_stream_step(i, g) ==
    /\ i \in alive
    /\ task[i][g].pc = "running"
    /\ task[i][g].stream = "check"
    /\ IF event[gh[i].quit]
       THEN /\ task' = [task EXCEPT ![i][g].stream = "done"]
            /\ queue' = queue
       ELSE IF queue[gh[i].input_queue] # <<>>
            THEN /\ queue' = [queue EXCEPT ![gh[i].input_queue] = Tail(@)]
                 /\ task' = task
            ELSE /\ task' = [task EXCEPT ![i][g].stream = "get"]
                 /\ queue' = queue
    /\ actor' = i
    /\ nshut' = 0
    /\ UNCHANGED <<kind, rvars, ovars, closed>>
    /\ UNCHANGED <<alive, driven, gh, event, emit_pc, produced, emitted,
                   args_was_set>>

\* stream suspended on input_queue.get() (line 66) resumes with a frame,
\* yields it (line 67) and is back at the loop head.
Gemini_stream_wake(i, g) ==
    /\ i \in alive
    /\ task[i][g].pc = "running"
    /\ task[i][g].stream = "get"
    /\ queue[gh[i].input_queue] # <<>>
    /\ queue' = [queue EXCEPT ![gh[i].input_queue] = Tail(@)]
    /\ task' = [task EXCEPT ![i][g].stream = "check"]
    /\ actor' = i
    /\ nshut' = 0
    /\ UNCHANGED <<kind, rvars, ovars, closed>>
    /\ UNCHANGED <<alive, driven, gh, event, emit_pc, produced, emitted,
                   args_was_set>>

\* The objects and coroutines shutdown() could touch.
GState == [queue |-> queue, event |-> event, emit_pc |-> emit_pc, task |-> task]

\* A shutdown() that also wakes stream() with a sentinel on the input queue.
Gemini_shutdown_sentinel(S, h) ==
    LET e1 == [S.event EXCEPT ![h.quit] = TRUE]
        e2 == [e1 EXCEPT ![h.args_set] = FALSE]
    IN  [S EXCEPT !.event = e2,
                  !.queue = [S.queue EXCEPT ![h.input_queue] = Append(@, "stop")]]

\* GeminiHandler.shutdown, lines 118-120, on the handler with references h:
\* quit.set(); args_set.clear(); quit.clear().  A synchronous method: no
\* coroutine runs between its statements.
Gemini_shutdown_state(S, h) ==
    LET e1 == [S.event EXCEPT ![h.quit] = TRUE]
        e2 == [e1 EXCEPT ![h.args_set] = FALSE]
        e3 == [e2 EXCEPT ![h.quit] = FALSE]
    IN  [S EXCEPT !.event = e3]

Gemini_shutdown(i) ==
    /\ i \in alive
    /\ LET S == Gemini_shutdown_state(GState, gh[i])
       IN  /\ queue' = S.queue
           /\ event' = S.event
           /\ emit_pc' = S.emit_pc
           /\ task' = S.task
    /\ nshut' = IF nshut < 2 THEN nshut + 1 ELSE 2
    /\ closed' = [closed EXCEPT ![i] = TRUE]
    /\ actor' = i
    /\ UNCHANGED <<kind, rvars, ovars>>
    /\ UNCHANGED <<alive, driven, gh, produced, emitted, args_was_set>>

\* -------------------------------------- ReplyOnOver (reply_on_over.py)

MaxFrameLen      == 2   \* samples in one input frame
MaxReply         == 1   \* frames the reply function yields for one turn
MaxOut           == 2   \* frames waiting in the output queue of the transport

SIds == 1..(MaxCopies + 2)    \* AppState objects
AIds == 1..(MaxCopies + 1)    \* AlgoOptions objects

\* Durations are in tenths of a second: 3.0 s (line 44), and the 0.6 s an
\* AlgoOptions() is created with.
audio_chunk_duration   == 30
default_chunk_duration == 6

\* input_sample_rate (line 29), with 48000 samples of the source as one sample
\* of the model.
SamplesPerSecond == 1

\* orig_sr / target_sr of librosa.resample for 48000 Hz input (lines 29, 62).
ResampleRatio == 3

Samples == {0, 1}    \* silence, speech
\* An input frame: up to MaxFrameLen samples of silence, or of speech.
FrameArrays == {[k \in 1..n |-> v] : n \in 1..MaxFrameLen, v \in Samples}

\* AppState(): no finalized segment, no buffer, nothing detected.
FreshAppState == [stream |-> None, sampling_rate |-> 0, pause_detected |-> FALSE,
                  responding |-> FALSE, buffer |-> None]

\* Transcripts the speech-to-text model may return for audio with speech.
Transcripts ==
    { <<"o", "v", "e", "r">>,
      <<"O", "k", ",", " ", "O", "V", "E", "R", ".">>,
      <<"t", "o", "m", "o", "r", "r", "o", "w", ".">>,
      <<"o", "v", "e", "r", " ", "i", "t">> }

\* str.lower() on the characters of the model's alphabet.
Lower(c) ==
    CASE c = "O" -> "o" [] c = "V" -> "v" [] c = "E" -> "e" [] c = "R" -> "r"
      [] c = "K" -> "k" [] c = "M" -> "m" [] OTHER -> c

lower(t) == [k \in 1..Len(t) |-> Lower(t[k])]

\* \w of the regular expression, on lowered text.
IsWordChar(c) == c \in {"o", "v", "e", "r", "k", "m", "t", "i", "w", "_", "2"}

\* The class [.,!?] of the regular expression.
CuePunct == {".", ",", "!", "?"}

\* $ without re.MULTILINE: the end of the string, or just before a newline
\* that is the last character of the string.
AtDollar(t, q) == q = Len(t) + 1 \/ (q = Len(t) /\ t[q] = "\n")

\* r"\bover[.,!?]*$" matched with its first character at position p.
MatchesAt(t, p) ==
    /\ p + 3 <= Len(t)
    /\ t[p] = "o" /\ t[p + 1] = "v" /\ t[p + 2] = "e" /\ t[p + 3] = "r"
    /\ (p = 1 \/ ~IsWordChar(t[p - 1]))
    /\ \E k \in 0..(Len(t) - (p + 3)) :
          /\ \A m \in (p + 4)..(p + 3 + k) : t[m] \in CuePunct
          /\ AtDollar(t, p + 4 + k)

\* An over_detected that forgets text.lower().
over_detected_case_sensitive(txt) ==
    \E p \in 1..Len(txt) : MatchesAt(txt, p)

\* ReplyOnOver.over_detected, line 49: re.search on t = text.lower().
over_detected(txt) ==
    \E t \in {lower(txt)} : \E p \in 1..Len(t) : MatchesAt(t, p)

\* audio_to_float32: int16 samples to float32.
audio_to_float32(audio) == [k \in 1..Len(audio) |-> <<"f32", audio[k]>>]

\* librosa.resample to 16000 Hz: one sample out of ResampleRatio.
Resample(audio) ==
    [k \in 1..(Len(audio) \div ResampleRatio) |-> audio[(k - 1) * ResampleRatio + 1]]

\* The VAD capability: the speech segments (here the speech samples) of audio.
vad(audio) == {k \in 1..Len(audio) : audio[k][2] # 0}

\* stt_for_chunks: the transcripts of the chunks, joined; "" without chunks.
\* heard is what the speech-to-text model returns for the speech.
stt_for_chunks(heard, chunks) == IF chunks = {} THEN <<>> ELSE heard

\* A determine_pause that finalizes the resampled float audio.
determine_pause_resampled(audio, sampling_rate, state, acd, heard) ==
    IF 10 * Len(audio) >= acd * sampling_rate
    THEN LET audio_rs == Resample(audio_to_float32(audio))
             txt      == stt_for_chunks(heard, vad(audio_rs))
         IN  IF over_detected(txt)
             THEN [ret |-> TRUE, calls |-> <<"vad", "stt">>, text |-> txt,
                   state |-> [state EXCEPT !.buffer = None, !.stream = Some(audio_rs)]]
             ELSE [ret |-> FALSE, calls |-> <<"vad", "stt">>, text |-> txt,
                   state |-> [state EXCEPT !.buffer = None, !.stream = None]]
    ELSE [ret |-> FALSE, calls |-> <<>>, text |-> <<>>, state |-> state]

\* A determine_pause that runs its detection pass on every frame.
determine_pause_eager(audio, sampling_rate, state, acd, heard) ==
    LET audio_rs == Resample(audio_to_float32(audio))
        txt      == stt_for_chunks(heard, vad(audio_rs))
    IN  IF over_detected(txt)
        THEN [ret |-> TRUE, calls |-> <<"vad", "stt">>, text |-> txt,
              state |-> [state EXCEPT !.buffer = None, !.stream = Some(audio)]]
        ELSE [ret |-> FALSE, calls |-> <<"vad", "stt">>, text |-> txt,
              state |-> [state EXCEPT !.buffer = None, !.stream = None]]

\* A determine_pause that leaves the finalized segment alone when no cue is
\* heard.
determine_pause_keep_stream(audio, sampling_rate, state, acd, heard) ==
    IF 10 * Len(audio) >= acd * sampling_rate
    THEN LET audio_rs == Resample(audio_to_float32(audio))
             txt      == stt_for_chunks(heard, vad(audio_rs))
         IN  IF over_detected(txt)
             THEN [ret |-> TRUE, calls |-> <<"vad", "stt">>, text |-> txt,
                   state |-> [state EXCEPT !.buffer = None, !.stream = Some(audio)]]
             ELSE [ret |-> FALSE, calls |-> <<"vad", "stt">>, text |-> txt,
                   state |-> [state EXCEPT !.buffer = None]]
    ELSE [ret |-> FALSE, calls |-> <<>>, text |-> <<>>, state |-> state]

\* ReplyOnOver.determine_pause, lines 57-76.  acd is
\* self.algo_options.audio_chunk_duration; calls lists the capabilities
\* invoked, text the transcript printed at line 69; the result carries the
\* AppState as the call leaves it.
determine_pause(audio, sampling_rate, state, acd, heard) ==
    IF 10 * Len(audio) >= acd * sampling_rate
    THEN LET audio_rs == Resample(audio_to_float32(audio))
             txt      == stt_for_chunks(heard, vad(audio_rs))
         IN  IF over_detected(txt)
             THEN [ret |-> TRUE, calls |-> <<"vad", "stt">>, text |-> txt,
                   state |-> [state EXCEPT !.buffer = None, !.stream = Some(audio)]]
             ELSE [ret |-> FALSE, calls |-> <<"vad", "stt">>, text |-> txt,
                   state |-> [state EXCEPT !.buffer = None, !.stream = None]]
    ELSE [ret |-> FALSE, calls |-> <<>>, text |-> <<>>, state |-> state]

\* The capability calls of a detection pass that may fail.
Faults == {"vad", "stt"}

\* ReplyOnOver.determine_pause, lines 57-76, when the capability named by
\* fault raises: no statement of the method catches, so the exception leaves
\* determine_pause at that call (line 64 or line 68), before line 70; raised
\* says so, and no value is returned (ret is not meaningful then).
determine_pause_raising(audio, sampling_rate, state, acd, heard, fault) ==
    IF 10 * Len(audio) >= acd * sampling_rate
    THEN [ret |-> FALSE, raised |-> TRUE,
          calls |-> IF fault = "vad" THEN <<"vad">> ELSE <<"vad", "stt">>,
          text |-> <<>>, state |-> state]
    ELSE [ret |-> FALSE, raised |-> FALSE, calls |-> <<>>, text |-> <<>>,
          state |-> state]

\* process_audio of ReplyOnPause, up to the call of determine_pause: note the
\* sampling rate of the first frame, append the frame to the buffer.
process_audio(rate, array, state) ==
    [state EXCEPT !.sampling_rate = IF @ = 0 THEN rate ELSE @,
                  !.buffer = IF @.some THEN Some(@.val \o array) ELSE Some(array)]

\* The output side of an instance with nothing generated yet: queue holds the
\* frames handed to the transport and not yet sent.
NoOut == [queue |-> <<>>]

\* The objects a ReplyOnOver operation can touch.
RState == [ro |-> ro, appstate |-> appstate, event |-> event, algo |-> algo,
           out |-> rout]

RUsedE(S, live) == UNION {{S.ro[j].event, S.ro[j].args_set} : j \in live}
RUsedS(S, live) == {S.ro[j].state : j \in live}
RUsedA(S, live) == {S.ro[j].algo_options : j \in live}

\* An AppState no instance refers to any more is gone.
Collect(S, live) ==
    [S EXCEPT !.appstate = [sid \in SIds |->
        IF sid \in RUsedS(S, live) THEN S.appstate[sid] ELSE FreshAppState]]

\* ReplyOnPause.__init__ for instance n: new events, a new AppState, no
\* generator; algo_options as given, or a new AlgoOptions() when None (0).
ReplyOnPause_init(S, n, algo_ref, can_interrupt, live) ==
    LET ev  == Fresh(EIds, RUsedE(S, live))
        as  == Fresh(EIds, RUsedE(S, live) \cup {ev})
        sid == Fresh(SIds, RUsedS(S, live))
        a   == IF algo_ref = 0 THEN Fresh(AIds, RUsedA(S, live)) ELSE algo_ref
    IN  [ro |-> [S.ro EXCEPT ![n] =
                   [state |-> sid, event |-> ev, args_set |-> as, algo_options |-> a,
                    can_interrupt |-> can_interrupt, generator |-> None]],
         appstate |-> [S.appstate EXCEPT ![sid] = FreshAppState],
         event |-> [S.event EXCEPT ![ev] = FALSE, ![as] = FALSE],
         algo |-> IF algo_ref = 0
                  THEN [S.algo EXCEPT ![a] = [audio_chunk_duration |-> default_chunk_duration,
                                              writes |-> 0]]
                  ELSE S.algo,
         out |-> [S.out EXCEPT ![n] = NoOut]]

\* ReplyOnOver.__init__, lines 32-46: the base constructor, then
\* algo_options.audio_chunk_duration = 3.0 and state = AppState().
ReplyOnOver_init(S, n, algo_ref, can_interrupt, live) ==
    LET S1  == ReplyOnPause_init(S, n, algo_ref, can_interrupt, live)
        S2  == [S1 EXCEPT !.algo[S1.ro[n].algo_options].audio_chunk_duration =
                              audio_chunk_duration,
                          !.algo[S1.ro[n].algo_options].writes = @ + 1]
        sid == Fresh(SIds, RUsedS(S2, live \cup {n}))
        S3  == [S2 EXCEPT !.ro[n].state = sid, !.appstate[sid] = FreshAppState]
    IN  Collect(S3, live \cup {n})

\* ReplyOnPause.reset: clear args_set, drop the generator, clear the event,
\* take a new AppState.
ReplyOnPause_reset(S, i, live) ==
    LET sid == Fresh(SIds, RUsedS(S, live))
    IN  [S EXCEPT !.event[S.ro[i].args_set] = FALSE,
                  !.event[S.ro[i].event] = FALSE,
                  !.ro[i].generator = None,
                  !.ro[i].state = sid,
                  !.appstate[sid] = FreshAppState]

\* A reset() that keeps the AppState of the turn.
ReplyOnOver_reset_keep_state(S, i, live) ==
    [S EXCEPT !.event[S.ro[i].args_set] = FALSE,
              !.event[S.ro[i].event] = FALSE,
              !.ro[i].generator = None]

\* ReplyOnOver.reset, lines 79-82.
ReplyOnOver_reset_state(S, i, live) ==
    LET S1  == ReplyOnPause_reset(S, i, live)
        sid == Fresh(SIds, RUsedS(S1, live))
        S2  == [S1 EXCEPT !.ro[i].generator = None,
                          !.event[S1.ro[i].event] = FALSE,
                          !.ro[i].state = sid,
                          !.appstate[sid] = FreshAppState]
    IN  Collect(S2, live)

\* The frame is qualifying input that interrupts the reply in progress:
\* interruption is on, the instance is responding, and the detector signals
\* on the audio buffered with this frame.
Interrupts(S, i, rate, array, heard) ==
    LET st  == S.appstate[S.ro[i].state]
        st1 == process_audio(rate, array, st)
    IN  /\ st.responding
        /\ S.ro[i].can_interrupt
        /\ determine_pause(st1.buffer.val, st1.sampling_rate, st1,
               S.algo[S.ro[i].algo_options].audio_chunk_duration, heard).ret

\* ReplyOnPause.receive: ignore the frame while responding when interruption
\* is off; else process_audio, determine_pause, and set the event on a pause.
\* A frame that interrupts cancels the generation in flight, clears the
\* output queue and calls reset().
ReplyOnPause_receive_state(S, i, rate, array, heard, live) ==
    LET st == S.appstate[S.ro[i].state]
    IN  IF st.responding /\ ~S.ro[i].can_interrupt
        THEN S
        ELSE LET st1 == process_audio(rate, array, st)
                 r   == determine_pause(st1.buffer.val, st1.sampling_rate, st1,
                            S.algo[S.ro[i].algo_options].audio_chunk_duration, heard)
                 st2 == [r.state EXCEPT !.pause_detected = r.ret]
                 S1  == [S EXCEPT !.appstate[S.ro[i].state] = st2,
                                  !.event[S.ro[i].event] = IF r.ret THEN TRUE ELSE @]
             IN  IF Interrupts(S, i, rate, array, heard)
                 THEN ReplyOnOver_reset_state(
                          [S1 EXCEPT !.ro[i].generator = None,
                                     !.out[i].queue = <<>>],
                          i, live)
                 ELSE S1

\* ReplyOnPause.emit: nothing before the event is set; then create the
\* generator from the reply function (it will yield n frames), mark the
\* state responding, and take the next frame, which goes to the output
\* queue of the transport, or reset() when the generator is exhausted.
ReplyOnPause_emit_state(S, i, n, live) ==
    IF ~S.event[S.ro[i].event]
    THEN S
    ELSE LET S1 == IF S.ro[i].generator.some THEN S
                   ELSE [S EXCEPT !.ro[i].generator = Some(n)]
             S2 == [S1 EXCEPT !.appstate[S.ro[i].state].responding = TRUE]
         IN  IF S2.ro[i].generator.val > 0
             THEN [S2 EXCEPT !.ro[i].generator = Some(@.val - 1),
                             !.out[i].queue = Append(@, "frame")]
             ELSE ReplyOnOver_reset_state(S2, i, live)

RApplyInit(S) ==
    /\ rout = S.out
    /\ ro = S.ro
    /\ appstate = S.appstate
    /\ event = S.event
    /\ algo = S.algo

RApply(S) ==
    /\ rout' = S.out
    /\ ro' = S.ro
    /\ appstate' = S.appstate
    /\ event' = S.event
    /\ algo' = S.algo

\* ReplyOnOver.copy, lines 85-96: a new ReplyOnOver given the same
\* algo_options object and the same configuration.
ReplyOnOver_copy(src) ==
    /\ src \in alive
    /\ Copies \ alive # {}
    /\ LET n == Min(Copies \ alive)
           S == ReplyOnOver_init(RState, n, ro[src].algo_options,
                                 ro[src].can_interrupt, alive)
       IN  /\ RApply(S)
           /\ alive' = alive \cup {n}
    /\ actor' = src
    /\ rlast' = [rlast EXCEPT !.op = "copy", !.discarded = 0]
    /\ UNCHANGED <<kind, driven, gvars, ovars>>

ReplyOnOver_receive(i) ==
    /\ i \in alive
    /\ \E array \in FrameArrays : \E heard \in Transcripts :
          LET S == ReplyOnPause_receive_state(RState, i, SamplesPerSecond, array,
                                              heard, alive)
          IN  /\ RApply(S)
              /\ rlast' = [op |-> IF Interrupts(RState, i, SamplesPerSecond, array, heard)
                                  THEN "interrupt" ELSE "receive",
                           had_turn |-> rlast.had_turn
                                        \/ S.appstate[S.ro[i].state].pause_detected,
                           discarded |-> IF Interrupts(RState, i, SamplesPerSecond,
                                                       array, heard)
                                         THEN Len(rout[i].queue) ELSE 0]
    /\ actor' = i
    /\ UNCHANGED <<kind, alive, driven, gvars, ovars>>

ReplyOnOver_emit(i) ==
    /\ i \in alive
    /\ \E n \in 0..MaxReply :
          LET S == ReplyOnPause_emit_state(RState, i, n, alive)
          IN  /\ Len(S.out[i].queue) <= MaxOut
              /\ RApply(S)
    /\ actor' = i
    /\ rlast' = [rlast EXCEPT !.op = "emit", !.discarded = 0]
    /\ UNCHANGED <<kind, alive, driven, gvars, ovars>>

ReplyOnOver_reset(i) ==
    /\ i \in alive
    /\ LET S == ReplyOnOver_reset_state(RState, i, alive)
       IN  RApply(S)
    /\ actor' = i
    /\ rlast' = [rlast EXCEPT !.op = "reset", !.discarded = 0]
    /\ UNCHANGED <<kind, alive, driven, gvars, ovars>>

\* The transport sends the oldest frame of the output queue.
Transport_send(i) ==
    /\ i \in alive
    /\ rout[i].queue # <<>>
    /\ rout' = [rout EXCEPT ![i].queue = Tail(@)]
    /\ actor' = i
    /\ rlast' = [rlast EXCEPT !.op = "emit", !.discarded = 0]
    /\ UNCHANGED <<kind, alive, driven, gvars, ovars, event, ro, appstate, algo>>

\* ------------------------------------------------ over_detected on its own

MaxTail == 2    \* characters after the last word of a transcript

OverPrefixes ==
    { <<>>, <<"m">>, <<"M">>, <<" ">>, <<"-">>, <<"_">>, <<"2">>,
      <<"o", "v", "e", "r", " ">>, <<"O", "k", ",", " ">> }

OverWords ==
    { <<"o", "v", "e", "r">>, <<"O", "V", "E", "R">>, <<"O", "v", "e", "r">>,
      <<"o", "v", "e">>, <<"o", "v", "e", "r", "t">>,
      <<"t", "o", "m", "o", "r", "r", "o", "w">> }

TailChars == {".", ",", "!", "?", " ", "\n", ";", "m"}

OverTails == UNION {[1..n -> TailChars] : n \in 0..MaxTail}

Texts == {p \o w \o t : p \in OverPrefixes, w \in OverWords, t \in OverTails}

\* A detection pass hands the transcript to over_detected.
Over_call ==
    /\ verdict = "none"
    /\ verdict' = IF over_detected(text) THEN "True" ELSE "False"
    /\ UNCHANGED <<kind, alive, driven, actor, event, gvars, rvars, text, cred>>

\* ------------------------------------- relay credentials (credentials.py)

\* Python's None for an argument, and an environment variable that is unset.
NoneVal == "None"

Methods    == {"hf", "twilio", "cloudflare", "HF"}
TokenArgs  == {NoneVal, "", "tok"}           \* token / hf_token argument
KeyArgs    == {NoneVal, "kid"}               \* turn_key_id / twilio_sid
SecretArgs == {NoneVal, "kat"}               \* turn_key_api_token / twilio_token
Ttls       == {600, 60}
EnvTokens  == {NoneVal, "", " tok", "tok"}   \* HF_TOKEN
EnvKeys    == {NoneVal, "ekid"}              \* CLOUDFLARE_TURN_KEY_ID
EnvSecrets == {NoneVal, "ekat"}              \* CLOUDFLARE_TURN_KEY_API_TOKEN
Statuses   == {200, 302, 403}                \* status of the provider's response

CredInputs ==
    [method : Methods, token : TokenArgs, key_id : KeyArgs, key_secret : SecretArgs,
     ttl : Ttls, HF_TOKEN : EnvTokens, KEY_ID : EnvKeys, KEY_SECRET : EnvSecrets,
     twilio_installed : BOOLEAN, status : Statuses]

\* str.strip() on the tokens of the model.
strip(t) == IF t = " tok" THEN "tok" ELSE t

NoReq == [verb |-> "none", url |-> "", auth |-> "", key |-> "", ttl |-> 0]

\* What a call answers: how it ended (out), the providers it invoked, the
\* HTTP request it sent, and the value returned or the text of the error.
NoResult == [out |-> "none", calls |-> <<>>, req |-> NoReq, body |-> <<>>]

NoCred == [input |-> [method |-> "", token |-> NoneVal, key_id |-> NoneVal,
                      key_secret |-> NoneVal, ttl |-> 600, HF_TOKEN |-> NoneVal,
                      KEY_ID |-> NoneVal, KEY_SECRET |-> NoneVal,
                      twilio_installed |-> FALSE, status |-> 200],
           turn |-> NoResult, sync |-> NoResult, async |-> NoResult]

\* get_hf_turn_credentials, lines 7-23.
get_hf_turn_credentials(in) ==
    LET token == IF in.token = NoneVal THEN in.HF_TOKEN ELSE in.token
        req   == [verb |-> "GET", url |-> "fastrtc-turn-server-login.hf.space",
                  auth |-> token, key |-> "", ttl |-> 0]
    IN  IF in.status # 200
        THEN [out |-> "ValueError", calls |-> <<"hf">>, req |-> req,
              body |-> <<"Failed to get credentials from HF turn server">>]
        ELSE [out |-> "return", calls |-> <<"hf">>, req |-> req,
              body |-> <<"iceServers", in.status>>]

\* get_twilio_turn_credentials, lines 99-116.
get_twilio_turn_credentials(in) ==
    IF ~in.twilio_installed
    THEN [out |-> "ImportError", calls |-> <<"twilio">>, req |-> NoReq,
          body |-> <<"Please install twilio">>]
    ELSE [out |-> "return", calls |-> <<"twilio">>,
          req |-> [verb |-> "tokens.create", url |-> "twilio", auth |-> in.key_secret,
                   key |-> in.key_id, ttl |-> 0],
          body |-> <<"iceServers", "relay">>]

InvalidMethod ==
    [out |-> "ValueError", calls |-> <<>>, req |-> NoReq,
     body |-> <<"Invalid method. Must be 'hf' or 'twilio'">>]

\* A get_turn_credentials that falls back to its default provider.
get_turn_credentials_default_hf(in) ==
    IF in.method = "twilio"
    THEN get_twilio_turn_credentials(in)
    ELSE get_hf_turn_credentials(in)

\* get_turn_credentials, lines 119-125.
get_turn_credentials(in) ==
    IF in.method = "hf"
    THEN get_hf_turn_credentials(in)
    ELSE IF in.method = "twilio"
         THEN get_twilio_turn_credentials(in)
         ELSE InvalidMethod

\* The GET of lines 32-35 and 68-73: the body of the response is returned
\* whatever its status.
CloudflareGet(hf_token, in) ==
    [out |-> "return", calls |-> <<"cloudflare">>,
     req |-> [verb |-> "GET", url |-> "turn.fastrtc.org", auth |-> hf_token,
              key |-> "", ttl |-> 0],
     body |-> <<"json", in.status>>]

\* Lines 37-57 and 75-96: the keyed POST with ttl; success is response.ok in
\* the synchronous function and response.is_success in the asynchronous one.
CloudflarePost(in, success) ==
    LET from_env == in.key_id = NoneVal \/ in.key_secret = NoneVal
        key_id   == IF from_env THEN in.KEY_ID ELSE in.key_id
        secret   == IF from_env THEN in.KEY_SECRET ELSE in.key_secret
        req      == [verb |-> "POST", url |-> "rtc.live.cloudflare.com", auth |-> secret,
                     key |-> key_id, ttl |-> in.ttl]
    IN  IF key_id = NoneVal \/ secret = NoneVal
        THEN [out |-> "ValueError", calls |-> <<>>, req |-> NoReq,
              body |-> <<"HF_TOKEN or CLOUDFLARE_TURN_KEY_ID and CLOUDFLARE_TURN_KEY_API_TOKEN must be set">>]
        ELSE IF success
             THEN [out |-> "return", calls |-> <<"cloudflare">>, req |-> req,
                   body |-> <<"json", in.status>>]
             ELSE [out |-> "Exception", calls |-> <<"cloudflare">>, req |-> req,
                   body |-> <<"Failed to get TURN credentials", in.status>>]

\* get_cloudflare_turn_credentials_sync, lines 26-57.
get_cloudflare_turn_credentials_sync(in) ==
    LET hf_token == IF in.token = NoneVal THEN in.HF_TOKEN ELSE in.token
    IN  IF hf_token # NoneVal
        THEN CloudflareGet(hf_token, in)
        ELSE CloudflarePost(in, in.status < 400)

\* get_cloudflare_turn_credentials, lines 60-96: os.getenv("HF_TOKEN", "")
\* answers "" for an unset variable, and the value is stripped.
get_cloudflare_turn_credentials(in) ==
    LET hf_token == IF in.token = NoneVal
                    THEN strip(IF in.HF_TOKEN = NoneVal THEN "" ELSE in.HF_TOKEN)
                    ELSE in.token
    IN  IF hf_token # NoneVal
        THEN CloudflareGet(hf_token, in)
        ELSE CloudflarePost(in, in.status >= 200 /\ in.status <= 299)

Call_get_turn_credentials ==
    /\ cred.turn.out = "none"
    /\ cred' = [cred EXCEPT !.turn = get_turn_credentials(cred.input)]
    /\ UNCHANGED <<kind, alive, driven, actor, event, gvars, rvars, text, verdict>>

Call_get_cloudflare_turn_credentials_sync ==
    /\ cred.sync.out = "none"
    /\ cred' = [cred EXCEPT !.sync = get_cloudflare_turn_credentials_sync(cred.input)]
    /\ UNCHANGED <<kind, alive, driven, actor, event, gvars, rvars, text, verdict>>

Call_get_cloudflare_turn_credentials ==
    /\ cred.async.out = "none"
    /\ cred' = [cred EXCEPT !.async = get_cloudflare_turn_credentials(cred.input)]
    /\ UNCHANGED <<kind, alive, driven, actor, event, gvars, rvars, text, verdict>>

\* ------------------------------------------------------- specifications

BlankR == [ro |-> [i \in Inst |-> NoReply],
           appstate |-> [sid \in SIds |-> FreshAppState],
           event |-> [e \in EIds |-> FALSE],
           algo |-> [a \in AIds |-> [audio_chunk_duration |-> default_chunk_duration,
                                     writes |-> 0]],
           out |-> [i \in Inst |-> NoOut]]

\* The application has built its handler template (instance 0) and no
\* connection has been made.  The connection under observation is the one
\* served by the first copy; the other copies are made at any time.
Init ==
    /\ kind \in {"gemini", "replyonover"}
    /\ alive = {0}
    /\ driven = 1
    /\ actor = 0
    /\ queue = [q \in QIds |-> <<>>]
    /\ emit_pc = [i \in Inst |-> [e \in Slots |-> "idle"]]
    /\ task = [i \in Inst |-> [g \in Tasks |-> [pc |-> "none", stream |-> "none"]]]
    /\ produced = [i \in Inst |-> <<>>]
    /\ emitted = [i \in Inst |-> <<>>]
    /\ args_was_set = [i \in Inst |-> FALSE]
    /\ nshut = 0
    /\ closed = [i \in Inst |-> FALSE]
    /\ rlast = [op |-> "init", had_turn |-> FALSE, discarded |-> 0]
    /\ text = <<>>
    /\ verdict = "none"
    /\ cred = NoCred
    /\ IF kind = "gemini"
       THEN /\ gh = [i \in Inst |-> IF i = 0
                       THEN [input_queue |-> 1, output_queue |-> 2,
                             quit |-> 2, args_set |-> 1]
                       ELSE NoGemini]
            /\ RApplyInit(BlankR)
       ELSE /\ gh = [i \in Inst |-> NoGemini]
            /\ \E can_interrupt \in BOOLEAN :
                  RApplyInit(ReplyOnOver_init(BlankR, 0, 0, can_interrupt, {}))

\* The steps of the connection served by the driven GeminiHandler.
GConnection ==
    \/ Gemini_receive(driven)
    \/ Handler_set_args(driven)
    \/ Gemini_shutdown(driven)
    \/ \E e \in Slots : Gemini_emit_call(driven, e)
    \/ \E e \in Slots : Gemini_emit_resume(driven, e)
    \/ \E e \in Slots : Gemini_emit_wake(driven, e)
    \/ \E g \in Tasks : Gemini_generator_put(driven, g)
    \/ \E g \in Tasks : Gemini_generator_end(driven, g)
    \/ \E g \in Tasks : Gemini_stream_step(driven, g)
    \/ \E g \in Tasks : Gemini_stream_wake(driven, g)

\* The framework copies the template (instance 0) for each new connection.
GNext ==
    \/ Gemini_copy(0)
    \/ GConnection

\* The steps of the connection served by the driven ReplyOnOver.
RConnection ==
    \/ ReplyOnOver_receive(driven)
    \/ ReplyOnOver_emit(driven)
    \/ ReplyOnOver_reset(driven)
    \/ Transport_send(driven)

RNext ==
    \/ ReplyOnOver_copy(0)
    \/ RConnection

\* The copy that serves the connection under observation is made, and no other.
ROneCopy ==
    /\ driven \notin alive
    /\ ReplyOnOver_copy(0)

ROneNext ==
    \/ ROneCopy
    \/ RConnection

Next ==
    \/ kind = "gemini" /\ GNext
    \/ kind = "replyonover" /\ RNext

\* Either handler class, with the copies made for its connections.
Spec == Init /\ [][Next]_vars

\* GeminiHandler connections.
InitG == Init /\ kind = "gemini"

SpecG == InitG /\ [][GNext]_vars

\* ReplyOnOver connections.
InitR == Init /\ kind = "replyonover"

SpecR == InitR /\ [][RNext]_vars

\* One ReplyOnOver connection, without the copies made for other connections.
SpecROne == InitR /\ [][ROneNext]_vars

\* over_detected applied to each transcript of Texts.
InitOver ==
    /\ kind = "over"
    /\ alive = {}
    /\ driven = 0
    /\ actor = 0
    /\ gh = [i \in Inst |-> NoGemini]
    /\ queue = [q \in QIds |-> <<>>]
    /\ emit_pc = [i \in Inst |-> [e \in Slots |-> "idle"]]
    /\ task = [i \in Inst |-> [g \in Tasks |-> [pc |-> "none", stream |-> "none"]]]
    /\ produced = [i \in Inst |-> <<>>]
    /\ emitted = [i \in Inst |-> <<>>]
    /\ args_was_set = [i \in Inst |-> FALSE]
    /\ nshut = 0
    /\ closed = [i \in Inst |-> FALSE]
    /\ rlast = [op |-> "init", had_turn |-> FALSE, discarded |-> 0]
    /\ RApplyInit(BlankR)
    /\ text \in Texts
    /\ verdict = "none"
    /\ cred = NoCred

SpecOver == InitOver /\ [][Over_call]_vars

\* The credential functions applied to each request of CredInputs.
InitCred ==
    /\ kind = "cred"
    /\ alive = {}
    /\ driven = 0
    /\ actor = 0
    /\ gh = [i \in Inst |-> NoGemini]
    /\ queue = [q \in QIds |-> <<>>]
    /\ emit_pc = [i \in Inst |-> [e \in Slots |-> "idle"]]
    /\ task = [i \in Inst |-> [g \in Tasks |-> [pc |-> "none", stream |-> "none"]]]
    /\ produced = [i \in Inst |-> <<>>]
    /\ emitted = [i \in Inst |-> <<>>]
    /\ args_was_set = [i \in Inst |-> FALSE]
    /\ nshut = 0
    /\ closed = [i \in Inst |-> FALSE]
    /\ rlast = [op |-> "init", had_turn |-> FALSE, discarded |-> 0]
    /\ RApplyInit(BlankR)
    /\ text = <<>>
    /\ verdict = "none"
    /\ \E in \in CredInputs : cred = [NoCred EXCEPT !.input = in]

CredNext ==
    \/ Call_get_turn_credentials
    \/ Call_get_cloudflare_turn_credentials_sync
    \/ Call_get_cloudflare_turn_credentials

SpecCred == InitCred /\ [][CredNext]_vars

\* The event loop runs every coroutine that is ready: a woken emit(), an
\* emit() or stream() whose queue holds a frame, a stream() at its loop head.
\* Frames, arguments, shutdown and the upstream session are the environment's.
GFairness ==
    /\ \A e \in Slots : WF_vars(Gemini_emit_resume(driven, e))
    /\ \A e \in Slots : WF_vars(Gemini_emit_wake(driven, e))
    /\ \A g \in Tasks : WF_vars(Gemini_stream_step(driven, g))
    /\ \A g \in Tasks : WF_vars(Gemini_stream_wake(driven, g))

FairSpecG == InitG /\ [][GNext]_vars /\ GFairness

\* ------------------------------------------------------------------ claims

\* What another connection can observe of a GeminiHandler instance.
GView(j) == [input_queue  |-> queue[gh[j].input_queue],
             output_queue |-> queue[gh[j].output_queue],
             quit         |-> event[gh[j].quit],
             args_set     |-> event[gh[j].args_set]]

\* ... and of a ReplyOnOver instance.
RView(j) == [state    |-> appstate[ro[j].state],
             event    |-> event[ro[j].event],
             args_set |-> event[ro[j].args_set]]

View(j) == IF kind = "gemini" THEN GView(j) ELSE RView(j)

\* The mutable objects instance j refers to, by class of object.
Refs(j) ==
    IF kind = "gemini"
    THEN [queues |-> {gh[j].input_queue, gh[j].output_queue},
          events |-> {gh[j].quit, gh[j].args_set},
          states |-> {}]
    ELSE [queues |-> {},
          events |-> {ro[j].event, ro[j].args_set},
          states |-> {ro[j].state}]

NoSharing ==
    \A i \in alive : \A j \in alive \ {i} :
        /\ Refs(i).queues \cap Refs(j).queues = {}
        /\ Refs(i).events \cap Refs(j).events = {}
        /\ Refs(i).states \cap Refs(j).states = {}

\* C1: two instances share no queue, event or AppState, and no step taken on
\* behalf of one instance changes the queues, events or AppState of another.
C1_Isolation ==
    /\ []NoSharing
    /\ [][\A j \in alive : j # actor' => View(j)' = View(j)]_vars

\* Two copies exist; the driven one has queued input, emitted a frame, had its
\* arguments set and been shut down, and the other is as constructed.
C1_Witness ==
    /\ kind = "gemini"
    /\ alive = Inst
    /\ queue[gh[driven].input_queue] # <<>>
    /\ emitted[driven] # <<>>
    /\ args_was_set[driven]
    /\ nshut >= 1
    /\ \A j \in Copies \ {driven} :
          GView(j) = [input_queue |-> <<>>, output_queue |-> <<>>,
                      quit |-> FALSE, args_set |-> FALSE]

C3_ShutdownEndsStream ==
    \A g \in Tasks :
        (/\ nshut >= 1
         /\ task[driven][g].pc = "running"
         /\ task[driven][g].stream \in {"check", "get"})
          ~> (task[driven][g].stream = "done")

\* C4: an emit() that is suspended on the output queue when shutdown() has
\* just been called eventually resumes.
C4_ShutdownResumesEmit ==
    \A e \in Slots :
        (nshut >= 1 /\ emit_pc[driven][e] = "wait_out")
          ~> (emit_pc[driven][e] # "wait_out")

\* C5: the frames emit() has returned are, in order, a prefix of the frames
\* the generator has put on the output queue.
C5_EmittedPrefixOfProduced ==
    \A i \in alive : IsPrefix(emitted[i], produced[i])

\* A frame has been emitted while the generator is still running and has
\* more to produce.
C5_Witness ==
    /\ driven \in alive
    /\ emitted[driven] = <<1>>
    /\ Len(produced[driven]) < MaxFrames
    /\ \E g \in Tasks : task[driven][g].pc = "running"

\* C10: in every reachable state, shutdown() applied twice leaves queues,
\* events, emit() calls and tasks as shutdown() applied once does.
C10_ShutdownIdempotent ==
    \A i \in alive :
        LET once == Gemini_shutdown_state(GState, gh[i])
        IN  Gemini_shutdown_state(once, gh[i]) = once

\* shutdown() was called twice in a row with a task and an emit() in flight.
C10_Witness ==
    /\ driven \in alive
    /\ nshut = 2
    /\ \E g \in Tasks : task[driven][g].pc = "running"
    /\ \E e \in Slots : emit_pc[driven][e] = "wait_out"
    /\ queue[gh[driven].input_queue] # <<>>

\* The AppState of instance i after process_audio has appended the frame, and
\* what determine_pause then answers.
Buffered(i, array) == process_audio(SamplesPerSecond, array, appstate[ro[i].state])

Pause(i, array, heard) ==
    LET st1 == Buffered(i, array)
    IN  determine_pause(st1.buffer.val, st1.sampling_rate, st1,
                        algo[ro[i].algo_options].audio_chunk_duration, heard)

\* C6: when the accumulated audio is shorter than audio_chunk_duration (3.0 s),
\* determine_pause invokes neither VAD nor speech-to-text, returns False and
\* leaves the buffer and the finalized segment of the AppState as they were.
C6_NoDetectionBelowChunk ==
    \A i \in alive : \A array \in FrameArrays : \A heard \in Transcripts :
        LET st1 == Buffered(i, array)
            r   == Pause(i, array, heard)
        IN  10 * Len(st1.buffer.val) < audio_chunk_duration * st1.sampling_rate
              => /\ r.calls = <<>>
                 /\ r.ret = FALSE
                 /\ r.state.buffer = st1.buffer
                 /\ r.state.stream = st1.stream

\* A short frame was received after a turn had been finalized: the buffer
\* holds it and the finalized segment is still there.
C6_Witness ==
    /\ kind = "replyonover"
    /\ driven \in alive
    /\ rlast.op = "receive"
    /\ LET st == appstate[ro[driven].state]
       IN  /\ st.buffer.some
           /\ 10 * Len(st.buffer.val) < audio_chunk_duration * st.sampling_rate
           /\ st.stream.some
           /\ ~st.pause_detected

\* C7: when determine_pause runs a detection pass and the transcript ends with
\* the cue, it returns True, the finalized segment is the raw audio it was
\* given, and the buffer is cleared.
C7_CueFinalizesRawAudio ==
    \A i \in alive : \A array \in FrameArrays : \A heard \in Transcripts :
        LET st1 == Buffered(i, array)
            r   == Pause(i, array, heard)
        IN  (/\ 10 * Len(st1.buffer.val) >= audio_chunk_duration * st1.sampling_rate
             /\ over_detected(r.text))
              => /\ r.calls = <<"vad", "stt">>
                 /\ r.ret = TRUE
                 /\ r.state.stream = Some(st1.buffer.val)
                 /\ r.state.buffer = None

\* A turn has just ended on audio that holds silence as well as speech: the
\* finalized segment is that audio, longer than its resampled form.
C7_Witness ==
    /\ kind = "replyonover"
    /\ driven \in alive
    /\ rlast.op = "receive"
    /\ LET st == appstate[ro[driven].state]
       IN  /\ st.pause_detected
           /\ st.stream.some
           /\ st.buffer = None
           /\ \E k \in 1..Len(st.stream.val) : st.stream.val[k] = 0
           /\ Len(st.stream.val) > Len(Resample(st.stream.val))
           /\ event[ro[driven].event]

\* The cue as the claim words it: the text ends with "over" in any case, as a
\* whole word, followed by characters of . , ! ? only.
EndsWithCue(t) ==
    \E k \in 0..Len(t) :
        LET n == Len(t) - k
        IN  /\ n >= 4
            /\ \A m \in (n + 1)..Len(t) : t[m] \in {".", ",", "!", "?"}
            /\ t[n - 3] \in {"o", "O"} /\ t[n - 2] \in {"v", "V"}
            /\ t[n - 1] \in {"e", "E"} /\ t[n] \in {"r", "R"}
            /\ (n = 4 \/ t[n - 4] \in {" ", "-", ",", ".", "!", "?", ";", "\n"})

\* C8 as stated: over_detected is true exactly when the transcript ends with
\* the whole word "over", in any case, followed by punctuation and nothing else.
C8_OverIffEndsWithCue ==
    verdict # "none" => ((verdict = "True") <=> EndsWithCue(text))

\* C8, amended: ... followed by zero or more of the characters . , ! ? and then
\* at most one final newline, and nothing else.
C8_OverIffEndsWithCueOrNewline ==
    verdict # "none" =>
        ((verdict = "True") <=>
            \/ EndsWithCue(text)
            \/ /\ Len(text) >= 1
               /\ text[Len(text)] = "\n"
               /\ EndsWithCue(SubSeq(text, 1, Len(text) - 1)))

\* over_detected answered True for a transcript ending "OVER?!".
C8_Witness ==
    /\ verdict = "True"
    /\ text = <<"O", "k", ",", " ", "O", "V", "E", "R", "?", "!">>

\* What the next turn of instance i depends on.
RLocal(S, i) ==
    [generator |-> S.ro[i].generator,
     event     |-> S.event[S.ro[i].event],
     args_set  |-> S.event[S.ro[i].args_set],
     state     |-> S.appstate[S.ro[i].state],
     audio_chunk_duration |-> S.algo[S.ro[i].algo_options].audio_chunk_duration,
     can_interrupt |-> S.ro[i].can_interrupt]

\* An instance as the constructor leaves it.
Constructed(can_interrupt) == ReplyOnOver_init(BlankR, 0, 0, can_interrupt, {})

\* C9: in every reachable state, reset() leaves the generator handle, the
\* events and the AppState as the constructor leaves them, and the next frame
\* then has the same outcome as the first frame of a new instance.
C9_ResetIsFresh ==
    \A i \in alive :
        LET S1 == ReplyOnOver_reset_state(RState, i, alive)
            F  == Constructed(ro[i].can_interrupt)
        IN  /\ RLocal(S1, i) = RLocal(F, 0)
            /\ \A array \in FrameArrays : \A heard \in Transcripts :
                  LET S2 == ReplyOnPause_receive_state(S1, i, SamplesPerSecond, array,
                                                       heard, alive)
                      F2 == ReplyOnPause_receive_state(F, 0, SamplesPerSecond, array,
                                                       heard, {0})
                  IN  RLocal(S2, i) = RLocal(F2, 0)

\* reset() has been called after a turn ended, and the instance is as new.
C9_Witness ==
    /\ kind = "replyonover"
    /\ driven \in alive
    /\ rlast.op = "reset"
    /\ rlast.had_turn
    /\ RLocal(RState, driven) = RLocal(Constructed(ro[driven].can_interrupt), 0)

\* C11: once shutdown() has been called on an instance, no step of an emit()
\* on it spawns a generator() task or returns an output frame.
C11_ClosedAfterShutdown ==
    [][\A i \in alive :
         closed[i] => /\ NumSpawned(i)' = NumSpawned(i)
                      /\ emitted'[i] = emitted[i]]_vars

C14_GeneratorFailureRecovers ==
    \A e \in Slots :
        (/\ ~closed[driven]
         /\ emit_pc[driven][e] = "wait_out"
         /\ \E g \in Tasks : task[driven][g].pc = "done"
         /\ \A g \in Tasks : task[driven][g].pc # "running")
          ~> (\/ emit_pc[driven][e] # "wait_out"
              \/ \E g \in Tasks : task[driven][g].pc = "running")

\* C15: when VAD or speech-to-text fails during a detection pass,
\* determine_pause does not raise: it answers False (Continue) and leaves no
\* finalized segment.
C15_DetectionFailureIsContinue ==
    \A i \in alive : \A array \in FrameArrays : \A heard \in Transcripts :
      \A fault \in Faults :
        LET st1 == Buffered(i, array)
            r   == determine_pause_raising(st1.buffer.val, st1.sampling_rate, st1,
                       algo[ro[i].algo_options].audio_chunk_duration, heard, fault)
        IN  10 * Len(st1.buffer.val) >= audio_chunk_duration * st1.sampling_rate
              => /\ ~r.raised
                 /\ r.ret = FALSE
                 /\ r.state.stream = None

\* C16: a copy() leaves every AlgoOptions object as it was: no field of the
\* object the new instance shares with the template is assigned.
C16_CopyWritesNoSharedConfig ==
    [][rlast'.op = "copy" => algo' = algo]_vars

\* C17: get_turn_credentials invokes the provider its method names and no
\* other, whatever the other arguments and the environment are, and for a
\* method that is neither "hf" nor "twilio" it raises ValueError without
\* invoking a provider or sending a request.
C17_ProviderByMethodOnly ==
    cred.turn.out # "none" =>
        /\ cred.input.method = "hf" => cred.turn.calls = <<"hf">>
        /\ cred.input.method = "twilio" => cred.turn.calls = <<"twilio">>
        /\ cred.input.method \notin {"hf", "twilio"}
              => /\ cred.turn.out = "ValueError"
                 /\ cred.turn.calls = <<>>
                 /\ cred.turn.req = NoReq

\* get_turn_credentials was called with the method "cloudflare", a token and
\* HF_TOKEN set, and answered ValueError.
C17_Witness ==
    /\ cred.input.method = "cloudflare"
    /\ cred.input.token = "tok"
    /\ cred.input.HF_TOKEN = "tok"
    /\ cred.turn.out = "ValueError"

\* C20: for the same arguments, environment and response, the synchronous and
\* the asynchronous commercial-relay functions end the same way, having sent
\* the same request, with the same result or error.
C20_SyncAsyncEquivalent ==
    (cred.sync.out # "none" /\ cred.async.out # "none") => cred.sync = cred.async

\* C18: when determine_pause runs a detection pass and the transcript does not
\* end with the cue, it returns False, clears the buffer and leaves no
\* finalized segment; after any detection pass a finalized segment is present
\* exactly when True was returned.
C18_NoCueIsContinue ==
    \A i \in alive : \A array \in FrameArrays : \A heard \in Transcripts :
        LET st1 == Buffered(i, array)
            r   == Pause(i, array, heard)
        IN  10 * Len(st1.buffer.val) >= audio_chunk_duration * st1.sampling_rate
              => /\ ~over_detected(r.text)
                    => /\ r.calls = <<"vad", "stt">>
                       /\ r.ret = FALSE
                       /\ r.state.buffer = None
                       /\ r.state.stream = None
                 /\ r.state.stream.some <=> r.ret

\* After a turn had ended, a detection pass ran on a frame that holds no cue:
\* the buffer is cleared and the finalized segment of the earlier turn is gone.
C18_Witness ==
    /\ kind = "replyonover"
    /\ driven \in alive
    /\ rlast.op = "receive"
    /\ rlast.had_turn
    /\ LET st == appstate[ro[driven].state]
       IN  /\ st.sampling_rate # 0
           /\ ~st.responding
           /\ ~st.pause_detected
           /\ st.buffer = None
           /\ st.stream = None

\* C19: on an instance that has not been shut down, once the readiness signal
\* has been set and an emit() has got past waiting for it, exactly one
\* generator() task has been spawned.
C19_ExactlyOneGenerator ==
    \A i \in alive :
        (/\ ~closed[i]
         /\ args_was_set[i]
         /\ \/ \E e \in Slots : emit_pc[i][e] = "wait_out"
            \/ emitted[i] # <<>>)
          => NumSpawned(i) = 1
====
